---- MODULE Spec2Model ----
(***************************************************************************)
(* Model of src/loadData.py: the two loaders loadFreq and loadFit.         *)
(*                                                                         *)
(* loadFreq is modelled on tables of rows <<l, n, v, err>>.  The degree    *)
(* column is a float compared with num_of_l - 0.5 and with 0.5 and rounded *)
(* by np.rint, so it is kept in HALF UNITS: the column holds 2*l, and the  *)
(* degrees -1, -0.5, 0, 0.5, 1, 1.5, 2 are -2 .. 4.  Orders and            *)
(* frequencies are integers; the slope of the fit is an exact fraction     *)
(* num/den, and floating-point rounding is not modelled.                   *)
(*                                                                         *)
(* loadFit is modelled statement by statement: the h5py container is a    *)
(* function from the key paths present in the file to the stored dataset, *)
(* the "with" block opens and closes the handle, every data[key][()] is   *)
(* one step, a KeyError either is caught (optional keys) or propagates    *)
(* through the exit of the "with" block to the caller.                    *)
(***************************************************************************)
EXTENDS Integers, Sequences, FiniteSets, TLC

VARIABLES
    fileOk,      \* loadFit: the path can be opened by h5py.File(filename, 'r')
    container,   \* loadFit: the file's content, key path -> stored dataset
    handle,      \* loadFit: "none" (never opened), "open", "closed"
    pcFit,       \* loadFit: position of the call
    idx,         \* loadFit: index in ReadOrder of the next read of the with body
    loc,         \* loadFit: local variables assigned so far, key path -> value
    exc,         \* loadFit: the exception in flight or delivered, "" if none
    result       \* loadFit: the returned 4-tuple, NoResult before the return

fitVars == <<fileOk, container, handle, pcFit, idx, loc, exc, result>>

VARIABLES
    table,       \* loadFreq: the rows np.genfromtxt parses from the file
    num_of_l,    \* loadFreq: the argument num_of_l
    pcFreq,      \* loadFreq: position of the call
    freq,        \* loadFreq: the local freq (the retained table)
    num_of_mode, \* loadFreq: the local num_of_mode
    num_of_n,    \* loadFreq: the local num_of_n, entry i+1 for degree i
    delta_nu,    \* loadFreq: the local delta_nu, a fraction, or NaN
    errFreq      \* loadFreq: the exception delivered to the caller, "" if none

freqVars == <<table, num_of_l, pcFreq, freq, num_of_mode, num_of_n, delta_nu, errFreq>>

vars == <<fitVars, freqVars>>

-----------------------------------------------------------------------------
(* loadFit: keys and values *)

\* bound: how many of the required keys a generated container may lack
MaxAbsentRequired == 1

\* the reads of the with body, in program order (lines 75-117)
ReadOrder ==
    << "header/method", "header/regu_param", "header/tol_grad", "header/n_guess",
       "header/tauhe", "header/dtauhe", "header/taucz", "header/dtaucz",
       "obs/freq", "obs/num_of_n", "obs/delta_nu", "obs/vmin", "obs/vmax",
       "obs/freqDif2", "obs/icov",
       "fit/param", "fit/chi2", "fit/reg", "fit/ier",
       "rto/rtype", "rto/ratio" >>

AllKeys == {ReadOrder[i] : i \in 1..Len(ReadOrder)}

\* the reads wrapped in try / except KeyError
OptionalKeys ==
    {"header/tauhe", "header/dtauhe", "header/taucz", "header/dtaucz",
     "obs/freqDif2", "obs/icov", "rto/rtype"}

\* the read guarded by "if rtype is not None"
RatioKey == "rto/ratio"

\* the bare reads: a KeyError raised there is not caught
RequiredKeys == (AllKeys \ OptionalKeys) \ {RatioKey}

\* Python's None
None == <<>>

\* the value of the result before loadFit has returned
NoResult == <<>>

KeyIndex(k) == CHOOSE i \in 1..Len(ReadOrder) : ReadOrder[i] = k

\* the dataset a generated file stores under key k: one distinct, non-None
\* value per key, so that a swapped or dropped field is visible
Dataset(k) == <<KeyIndex(k)>>

\* the generated containers: any set of optional keys and rto/ratio may be
\* absent, together with at most MaxAbsentRequired of the required keys
AbsentSets ==
    {r \cup o : r \in {s \in SUBSET RequiredKeys : Cardinality(s) <= MaxAbsentRequired},
                o \in SUBSET (OptionalKeys \cup {RatioKey})}

Containers == {[k \in AllKeys \ a |-> Dataset(k)] : a \in AbsentSets}

EmptyContainer == [k \in {} |-> None]

-----------------------------------------------------------------------------
(* loadFit: statements *)

\* data[key][()] succeeds iff the key path exists in the file
HasKey(data, k) == k \in DOMAIN data

\* variant: the read of fit/ier wrapped in try / except KeyError as well
CatchesKeyErrorAlsoIer(k) == k \in OptionalKeys \cup {"fit/ier"}

\* variant: the read of obs/icov left bare, so that its KeyError propagates
CatchesKeyErrorButIcov(k) == k \in OptionalKeys \ {"obs/icov"}

\* whether the read of key k sits in a try whose except KeyError assigns None
CatchesKeyError(k) == k \in OptionalKeys

\* data[key][()], for a key that exists
ReadDataset(data, k) == data[k]

\* variant: ratio read whenever the file has a rto/ratio key
RatioGateByKey(l) == HasKey(container, RatioKey)

\* "if rtype is not None"
RatioGate(l) == l["rto/rtype"] # None

\* variant: a close() at the end of the body instead of a with block
ExitHandleNoWith(p) == IF p = "raising" THEN "open" ELSE "closed"

\* h5py.File.__exit__: the handle is closed however the body was left
ExitHandle(p) == "closed"

\* variant: the header of the docstring (lines 62-63), which has no n_guess
HeaderOfDocstring(l) ==
    << l["header/method"], l["header/regu_param"], l["header/tol_grad"],
       l["header/tauhe"], l["header/dtauhe"], l["header/taucz"], l["header/dtaucz"] >>

\* the four tuples of lines 122-125
Header(l) ==
    << l["header/method"], l["header/regu_param"], l["header/tol_grad"],
       l["header/n_guess"], l["header/tauhe"], l["header/dtauhe"],
       l["header/taucz"], l["header/dtaucz"] >>

ObsData(l) ==
    << l["obs/freq"], l["obs/num_of_n"], l["obs/delta_nu"], l["obs/vmin"],
       l["obs/vmax"], l["obs/freqDif2"], l["obs/icov"] >>

FitData(l) == << l["fit/param"], l["fit/chi2"], l["fit/reg"], l["fit/ier"] >>

RtoData(l) == << l["rto/rtype"], l["rto/ratio"] >>

InitFit ==
    /\ \/ fileOk = TRUE /\ container \in Containers
       \/ fileOk = FALSE /\ container = EmptyContainer
    /\ handle = "none"
    /\ pcFit = "start"
    /\ idx = 1
    /\ loc = EmptyContainer
    /\ exc = ""
    /\ result = NoResult

\* line 74, h5py.File(filename, 'r') on a file that can be opened
Open ==
    /\ pcFit = "start"
    /\ fileOk
    /\ handle' = "open"
    /\ pcFit' = "body"
    /\ UNCHANGED <<fileOk, container, idx, loc, exc, result>>
    /\ UNCHANGED freqVars

\* line 74 on a path that cannot be opened: the error leaves loadFit at once
OpenFails ==
    /\ pcFit = "start"
    /\ ~fileOk
    /\ exc' = "OSError"
    /\ pcFit' = "failed"
    /\ UNCHANGED <<fileOk, container, handle, idx, loc, result>>
    /\ UNCHANGED freqVars

\* the assignment of the value v to the local of the current read, and the
\* move to the next statement of the with body (or to its end)
Assign(k, v) ==
    /\ loc' = (k :> v) @@ loc
    /\ IF idx < Len(ReadOrder)
         THEN idx' = idx + 1 /\ pcFit' = "body"
         ELSE idx' = idx /\ pcFit' = "leaving"
    /\ UNCHANGED exc

\* a KeyError that no except clause of the body catches
Raise ==
    /\ exc' = "KeyError"
    /\ pcFit' = "raising"
    /\ UNCHANGED <<idx, loc>>

\* lines 75-78, 95-99, 108-111: x = data[key][()]
ReadRequired ==
    /\ pcFit = "body"
    /\ ReadOrder[idx] # RatioKey
    /\ ~CatchesKeyError(ReadOrder[idx])
    /\ IF HasKey(container, ReadOrder[idx])
         THEN Assign(ReadOrder[idx], ReadDataset(container, ReadOrder[idx]))
         ELSE Raise
    /\ UNCHANGED <<fileOk, container, handle, result>>
    /\ UNCHANGED freqVars

\* lines 79-94, 100-107, 112-115: try: x = data[key][()] except KeyError: x = None
ReadOptional ==
    /\ pcFit = "body"
    /\ ReadOrder[idx] # RatioKey
    /\ CatchesKeyError(ReadOrder[idx])
    /\ IF HasKey(container, ReadOrder[idx])
         THEN Assign(ReadOrder[idx], ReadDataset(container, ReadOrder[idx]))
         ELSE Assign(ReadOrder[idx], None)
    /\ UNCHANGED <<fileOk, container, handle, result>>
    /\ UNCHANGED freqVars

\* lines 116-119: if rtype is not None: ratio = data['rto/ratio'][()] else: ratio = None
ReadRatio ==
    /\ pcFit = "body"
    /\ ReadOrder[idx] = RatioKey
    /\ IF RatioGate(loc)
         THEN IF HasKey(container, RatioKey)
                THEN Assign(RatioKey, ReadDataset(container, RatioKey))
                ELSE Raise
         ELSE Assign(RatioKey, None)
    /\ UNCHANGED <<fileOk, container, handle, result>>
    /\ UNCHANGED freqVars

\* the end of the with block (line 74), reached by falling off the body or
\* by an exception in flight, which goes on to the caller
WithExit ==
    /\ pcFit \in {"leaving", "raising"}
    /\ handle' = ExitHandle(pcFit)
    /\ pcFit' = IF pcFit = "raising" THEN "failed" ELSE "group"
    /\ UNCHANGED <<fileOk, container, idx, loc, exc, result>>
    /\ UNCHANGED freqVars

\* lines 121-127
GroupReturn ==
    /\ pcFit = "group"
    /\ result' = << Header(loc), ObsData(loc), FitData(loc), RtoData(loc) >>
    /\ pcFit' = "returned"
    /\ UNCHANGED <<fileOk, container, handle, idx, loc, exc>>
    /\ UNCHANGED freqVars

NextFit ==
    \/ Open
    \/ OpenFails
    \/ ReadRequired
    \/ ReadOptional
    \/ ReadRatio
    \/ WithExit
    \/ GroupReturn

-----------------------------------------------------------------------------
(* loadFreq: inputs *)

\* bound: the longest table a generated file holds
MaxRows == 3

\* the degree column of the generated rows, in half units (-1 .. 2)
Degrees == {-2, -1, 0, 1, 2, 3, 4}

\* the values of num_of_l of the generated calls
NumLs == {0, 1, 2, 3}

\* rows rich in degrees, for the filter and the per-degree counts
CountRows == {<<d, p[1], p[2], 1>> : d \in Degrees, p \in {<<0, 1000>>, <<1, 1100>>}}

\* rows rich in (order, frequency) pairs, for the fit
FitRows == {<<d, n, v, 1>> : d \in {0, 1, 2}, n \in {0, 1, 2}, v \in {1000, 1050, 1100}}

TablesOver(rows) == UNION {[1..k -> rows] : k \in 0..MaxRows}

\* Python's nan as a value of delta_nu
NaN == [num |-> 0, den |-> 0]

\* the value of the locals before their assignment
Unset == <<>>

-----------------------------------------------------------------------------
(* loadFreq: numpy operations *)

RECURSIVE MaskSelect(_, _)
\* t[mask, :]: the rows of t whose mask entry is true, in the order of t
MaskSelect(t, mask) ==
    IF t = <<>> THEN <<>>
    ELSE IF Head(mask)
           THEN <<Head(t)>> \o MaskSelect(Tail(t), Tail(mask))
           ELSE MaskSelect(Tail(t), Tail(mask))

\* variant: the filter without the half offset, freq[:, 0] < num_of_l
KeepMaskNoHalf(t, numl) == [i \in 1..Len(t) |-> t[i][1] < 2 * numl]

\* freq[:, 0] < (num_of_l - 0.5), the degree in half units
KeepMask(t, numl) == [i \in 1..Len(t) |-> t[i][1] < 2 * numl - 1]

\* variant: truncation towards minus infinity, as np.floor would do
RintFloor(h) == h \div 2

\* np.rint of h/2: the nearest integer, a tie going to the even one
Rint(h) ==
    IF h % 2 = 0 THEN h \div 2
    ELSE LET f == (h - 1) \div 2 IN IF f % 2 = 0 THEN f ELSE f + 1

\* variant: the comparison without the rounding, freq[:, 0] == i
DegreeMaskExact(t, i) == [j \in 1..Len(t) |-> t[j][1] = 2 * i]

\* np.rint(freq[:, 0]) == i
DegreeMask(t, i) == [j \in 1..Len(t) |-> Rint(t[j][1]) = i]

\* freq[:, 0] < 0.5
RadialMask(t) == [j \in 1..Len(t) |-> t[j][1] < 1]

\* a column of a table
Column(t, c) == [j \in 1..Len(t) |-> t[j][c]]

RECURSIVE SumSeq(_)
SumSeq(s) == IF s = <<>> THEN 0 ELSE Head(s) + SumSeq(Tail(s))

Products(x, y) == [j \in 1..Len(x) |-> x[j] * y[j]]

\* np.polyfit(x, y, 1)[0].  An empty x is rejected (TypeError).  With two
\* distinct abscissae the least-squares line is unique and its slope is
\* returned.  Otherwise the Vandermonde matrix has rank 1: lstsq returns the
\* minimum-norm solution of the column-scaled system with a RankWarning,
\* which is no error, slope mean(y)/(2*x0); for x0 = 0 the scaling divides
\* 0 by 0 and lstsq either raises LinAlgError or yields nan, by the build.
PolyfitSlope(x, y) ==
    LET n   == Len(x)
        sx  == SumSeq(x)
        sy  == SumSeq(y)
        sxy == SumSeq(Products(x, y))
        sxx == SumSeq(Products(x, x))
    IN  IF n = 0 THEN {[raise |-> "TypeError"]}
        ELSE IF n * sxx - sx * sx # 0
          THEN {[raise |-> "", slope |-> [num |-> n * sxy - sx * sy, den |-> n * sxx - sx * sx]]}
        ELSE IF x[1] # 0
          THEN {[raise |-> "", slope |-> [num |-> sy, den |-> 2 * n * x[1]]]}
        ELSE {[raise |-> "LinAlgError"], [raise |-> "", slope |-> NaN]}

-----------------------------------------------------------------------------
(* loadFreq: statements *)

FreqIdle ==
    /\ table = <<>>
    /\ num_of_l = 0
    /\ pcFreq = "idle"
    /\ freq = Unset
    /\ num_of_mode = 0
    /\ num_of_n = Unset
    /\ delta_nu = NaN
    /\ errFreq = ""

FreqCall(rows) ==
    /\ table \in TablesOver(rows)
    /\ num_of_l \in NumLs
    /\ pcFreq = "start"
    /\ freq = Unset
    /\ num_of_mode = 0
    /\ num_of_n = Unset
    /\ delta_nu = NaN
    /\ errFreq = ""

\* lines 32-34.  genfromtxt gives a 1-D array for a file of no row or of one
\* row, and freq[:, 0] then raises IndexError.
ReadFreq ==
    /\ pcFreq = "start"
    /\ IF Len(table) < 2
         THEN /\ errFreq' = "IndexError"
              /\ pcFreq' = "failed"
              /\ UNCHANGED <<freq, num_of_mode>>
         ELSE /\ freq' = MaskSelect(table, KeepMask(table, num_of_l))
              /\ num_of_mode' = Len(freq')
              /\ pcFreq' = "count"
              /\ UNCHANGED errFreq
    /\ UNCHANGED <<table, num_of_l, num_of_n, delta_nu>>
    /\ UNCHANGED fitVars

\* lines 36-39
CountModes ==
    /\ pcFreq = "count"
    /\ IF num_of_l < 0
         THEN /\ errFreq' = "ValueError"
              /\ pcFreq' = "failed"
              /\ UNCHANGED num_of_n
         ELSE /\ num_of_n' = [i \in 1..num_of_l |->
                                Len(MaskSelect(freq, DegreeMask(freq, i - 1)))]
              /\ pcFreq' = "fit"
              /\ UNCHANGED errFreq
    /\ UNCHANGED <<table, num_of_l, freq, num_of_mode, delta_nu>>
    /\ UNCHANGED fitVars

\* lines 41-45
FitReturn ==
    /\ pcFreq = "fit"
    /\ LET radial == MaskSelect(freq, RadialMask(freq)) IN
       \E out \in PolyfitSlope(Column(radial, 2), Column(radial, 3)) :
          IF out.raise # ""
            THEN /\ errFreq' = out.raise
                 /\ pcFreq' = "failed"
                 /\ UNCHANGED delta_nu
            ELSE /\ delta_nu' = out.slope
                 /\ pcFreq' = "returned"
                 /\ UNCHANGED errFreq
    /\ UNCHANGED <<table, num_of_l, freq, num_of_mode, num_of_n>>
    /\ UNCHANGED fitVars

NextFreq ==
    \/ ReadFreq
    \/ CountModes
    \/ FitReturn

-----------------------------------------------------------------------------
(* specifications *)

FitIdle ==
    /\ fileOk = FALSE
    /\ container = EmptyContainer
    /\ handle = "none"
    /\ pcFit = "idle"
    /\ idx = 1
    /\ loc = EmptyContainer
    /\ exc = ""
    /\ result = NoResult

\* calls of loadFit on the generated containers
InitLoadFit == InitFit /\ FreqIdle

SpecFit == InitLoadFit /\ [][NextFit]_vars

\* calls of loadFreq on tables rich in degrees
InitLoadFreq == FreqCall(CountRows) /\ FitIdle

SpecFreq == InitLoadFreq /\ [][NextFreq]_vars

\* calls of loadFreq on tables rich in (order, frequency) pairs
InitLoadFreqFit == FreqCall(FitRows) /\ FitIdle

SpecFreqFit == InitLoadFreqFit /\ [][NextFreq]_vars

-----------------------------------------------------------------------------
(* loadFit: properties *)

\* the thirteen keys the specification calls required
ClaimedRequired ==
    {"header/method", "header/regu_param", "header/tol_grad", "header/n_guess",
     "obs/freq", "obs/num_of_n", "obs/delta_nu", "obs/vmin", "obs/vmax",
     "fit/param", "fit/chi2", "fit/reg", "fit/ier"}

\* the seven keys the specification calls optional
ClaimedOptional ==
    {"header/tauhe", "header/dtauhe", "header/taucz", "header/dtaucz",
     "obs/freqDif2", "obs/icov", "rto/rtype"}

\* the place of each field in the returned tuples, as the specification
\* lists them: <<tuple, position>>
Place ==
    [k \in ClaimedRequired \cup ClaimedOptional \cup {"rto/ratio"} |->
       CASE k = "header/method"     -> <<1, 1>>
         [] k = "header/regu_param" -> <<1, 2>>
         [] k = "header/tol_grad"   -> <<1, 3>>
         [] k = "header/n_guess"    -> <<1, 4>>
         [] k = "header/tauhe"      -> <<1, 5>>
         [] k = "header/dtauhe"     -> <<1, 6>>
         [] k = "header/taucz"      -> <<1, 7>>
         [] k = "header/dtaucz"     -> <<1, 8>>
         [] k = "obs/freq"          -> <<2, 1>>
         [] k = "obs/num_of_n"      -> <<2, 2>>
         [] k = "obs/delta_nu"      -> <<2, 3>>
         [] k = "obs/vmin"          -> <<2, 4>>
         [] k = "obs/vmax"          -> <<2, 5>>
         [] k = "obs/freqDif2"      -> <<2, 6>>
         [] k = "obs/icov"          -> <<2, 7>>
         [] k = "fit/param"         -> <<3, 1>>
         [] k = "fit/chi2"          -> <<3, 2>>
         [] k = "fit/reg"           -> <<3, 3>>
         [] k = "fit/ier"           -> <<3, 4>>
         [] k = "rto/rtype"         -> <<4, 1>>
         [] k = "rto/ratio"         -> <<4, 2>>]

\* the arities of the four tuples
TupleShape == <<8, 7, 4, 2>>

WellShaped(r) ==
    /\ Len(r) = 4
    /\ \A t \in 1..4 : Len(r[t]) = TupleShape[t]

\* the field of key k in a returned result
Field(r, k) == r[Place[k][1]][Place[k][2]]

Present(k) == k \in DOMAIN container

AllRequiredPresent == \A k \in ClaimedRequired : Present(k)

\* control is back with the caller
BackWithCaller == pcFit \in {"returned", "failed"}

\* loadFit has not stopped anywhere but at its return or at a delivered error
RunsToCompletion == BackWithCaller \/ ENABLED NextFit

\* C1: the handle loadFit opened is closed by the time control is back with
\* the caller, on the normal return as on a missing-key error of a required
\* field or of rto/ratio; it is open only inside the with block.
C1_HandleReleased ==
    /\ (BackWithCaller /\ fileOk) => handle = "closed"
    /\ handle = "open" => pcFit \in {"body", "leaving", "raising"}
    /\ pcFit \in {"group", "returned", "failed"} => handle # "open"

\* C1 witness: a missing-key error has reached the caller and the handle is closed
C1_Witness ==
    /\ pcFit = "failed"
    /\ exc = "KeyError"
    /\ ReadOrder[idx] \in ClaimedRequired
    /\ handle = "closed"

\* C2: when one of the thirteen required keys is absent, loadFit ends in a
\* missing-key error delivered to the caller, whatever optional keys are
\* there: nothing is returned, and no value stands in for the absent field.
C2_MissingRequiredFails ==
    (fileOk /\ ~AllRequiredPresent) =>
        /\ pcFit \notin {"leaving", "group", "returned"}
        /\ result = NoResult
        /\ \A k \in ClaimedRequired : ~Present(k) => k \notin DOMAIN loc
        /\ pcFit = "failed" =>
              /\ exc = "KeyError"
              /\ ReadOrder[idx] \in ClaimedRequired
              /\ ~Present(ReadOrder[idx])
        /\ RunsToCompletion

\* C2 witness: the last required key is the absent one, every optional key
\* is there, and the error has reached the caller
C2_Witness ==
    /\ pcFit = "failed"
    /\ exc = "KeyError"
    /\ ~Present("fit/ier")
    /\ \A k \in ClaimedOptional : Present(k)
    /\ result = NoResult

\* what a returned result holds for the seven optional fields and the
\* thirteen required ones
FieldsAsStored(r) ==
    /\ WellShaped(r)
    /\ \A k \in ClaimedOptional :
          Field(r, k) = IF Present(k) THEN container[k] ELSE None
    /\ \A k \in ClaimedRequired : Field(r, k) = container[k]

\* C3 as stated: with all required keys there, whatever optional keys are
\* absent, no error is raised and every optional field is None or its value.
C3_AsStated ==
    (fileOk /\ AllRequiredPresent) =>
        /\ pcFit \notin {"raising", "failed"}
        /\ pcFit = "returned" => FieldsAsStored(result)

\* C3 (amended): with all required keys there, and rto/ratio there whenever
\* rto/rtype is, no error is raised whatever optional keys are absent; each
\* absent optional field is None, each present one has its stored value, and
\* every field is read.
C3_OptionalAbsentIsNone ==
    (fileOk /\ AllRequiredPresent /\ (Present("rto/rtype") => Present("rto/ratio"))) =>
        /\ pcFit \notin {"raising", "failed"}
        /\ exc = ""
        /\ pcFit = "returned" =>
              /\ FieldsAsStored(result)
              /\ DOMAIN loc = ClaimedRequired \cup ClaimedOptional \cup {"rto/ratio"}
        /\ RunsToCompletion

\* C3 witness: a return with tauhe and icov absent and the other optional
\* fields present
C3_Witness ==
    /\ pcFit = "returned"
    /\ ~Present("header/tauhe") /\ ~Present("obs/icov")
    /\ \A k \in ClaimedOptional \ {"header/tauhe", "obs/icov"} : Present(k)
    /\ Field(result, "header/tauhe") = None
    /\ Field(result, "obs/icov") = None
    /\ Field(result, "header/dtauhe") = container["header/dtauhe"]

\* C4: ratio is read iff rtype is present.  Without rtype, ratio is None
\* and no error comes from it, whether or not a rto/ratio key exists; with
\* rtype and without a ratio key the call fails with a missing-key error at
\* rto/ratio; in every returned rtoData ratio is populated iff rtype is.
C4_RatioGatedOnRtype ==
    /\ pcFit = "returned" =>
          /\ WellShaped(result)
          /\ (Field(result, "rto/ratio") # None) <=> (Field(result, "rto/rtype") # None)
          /\ Present("rto/rtype") =>
                /\ Field(result, "rto/rtype") = container["rto/rtype"]
                /\ Present("rto/ratio")
                /\ Field(result, "rto/ratio") = container["rto/ratio"]
          /\ ~Present("rto/rtype") => result[4] = <<None, None>>
    /\ (fileOk /\ AllRequiredPresent /\ ~Present("rto/rtype")) =>
          pcFit \notin {"raising", "failed"}
    /\ (fileOk /\ AllRequiredPresent /\ Present("rto/rtype") /\ ~Present("rto/ratio")) =>
          /\ pcFit \notin {"leaving", "group", "returned"}
          /\ pcFit = "failed" => (exc = "KeyError" /\ ReadOrder[idx] = "rto/ratio")
          /\ RunsToCompletion

\* C4 witness: a return without rtype from a file that has a rto/ratio key
C4_Witness ==
    /\ pcFit = "returned"
    /\ ~Present("rto/rtype")
    /\ Present("rto/ratio")
    /\ result[4] = <<None, None>>

-----------------------------------------------------------------------------
(* loadFreq: properties *)

\* a row's degree is strictly less than num_of_l - 0.5
BelowCut(r) == r[1] + 1 < 2 * num_of_l

\* the rows of the input table the specification retains
Retained == SelectSeq(table, BelowCut)

\* the integer i is the nearest integer to the degree h/2, a tie going to
\* the even integer
NearestInt(h, i) ==
    LET dist == IF h >= 2 * i THEN h - 2 * i ELSE 2 * i - h
    IN  dist = 0 \/ (dist = 1 /\ i % 2 = 0)

\* C5: the returned table is exactly the input rows of degree strictly less
\* than num_of_l - 0.5, in input order; no row of degree >= num_of_l is in
\* it; num_of_mode is its number of rows.
C5_FilterKeepsRowsBelowCut ==
    pcFreq = "returned" =>
        /\ freq = Retained
        /\ \A j \in 1..Len(freq) : freq[j][1] < 2 * num_of_l
        /\ num_of_mode = Len(freq)

\* C5 witness: a returned table that kept two radial rows of different
\* order and dropped the row of degree >= num_of_l that stood between them
C5_Witness ==
    /\ pcFreq = "returned"
    /\ Len(table) = 3
    /\ table[2][1] >= 2 * num_of_l
    /\ freq = <<table[1], table[3]>>
    /\ table[1][1] = 0 /\ table[3][1] = 0
    /\ table[1][2] # table[3][2]
    /\ num_of_mode = 2

\* C6: num_of_n has exactly num_of_l entries, and entry i (degree i, for i
\* in 0..num_of_l-1) is the number of retained rows whose degree rounded to
\* the nearest integer is i.
C6_CountsPerDegree ==
    pcFreq = "returned" =>
        /\ Len(num_of_n) = num_of_l
        /\ \A i \in 0..(num_of_l - 1) :
              num_of_n[i + 1] =
                 Cardinality({j \in 1..Len(Retained) : NearestInt(Retained[j][1], i)})

\* C6 witness: two rows of degree 0, one of degree 1 and none of degree 2
\* with num_of_l = 3 give [2, 1, 0], num_of_mode = 3 and delta_nu = 100
C6_Witness ==
    /\ pcFreq = "returned"
    /\ num_of_l = 3
    /\ table = << <<0, 0, 1000, 1>>, <<0, 1, 1100, 1>>, <<2, 0, 1000, 1>> >>
    /\ num_of_n = <<2, 1, 0>>
    /\ num_of_mode = 3
    /\ delta_nu.den # 0 /\ delta_nu.num = 100 * delta_nu.den

\* C10 as stated: whenever loadFreq returns, the entries of num_of_n sum to
\* num_of_mode.  (Stated of the returns that carry a number for delta_nu,
\* which do not depend on the build of the linear-algebra library.)
C10_AsStated ==
    (pcFreq = "returned" /\ delta_nu # NaN) => SumSeq(num_of_n) = num_of_mode

\* C10 (amended): whenever loadFreq returns and no retained row has a degree
\* below -0.5, the entries of num_of_n sum to num_of_mode, every retained
\* row being counted under exactly one degree index in 0..num_of_l-1.
C10_CountsPartitionRetained ==
    (pcFreq = "returned" /\ \A j \in 1..Len(Retained) : Retained[j][1] >= -1) =>
        /\ SumSeq(num_of_n) = num_of_mode
        /\ num_of_mode = Len(Retained)
        /\ \A j \in 1..Len(Retained) :
              Cardinality({i \in 0..(num_of_l - 1) : NearestInt(Retained[j][1], i)}) = 1

\* C10 witness: a return with rows of degree -0.5, 0 and 0.5 retained, all
\* counted (under degree 0), the two radial rows differing in order
C10_Witness ==
    /\ pcFreq = "returned"
    /\ num_of_l = 2
    /\ Len(table) = 3
    /\ <<table[1][1], table[2][1], table[3][1]>> = <<-1, 0, 1>>
    /\ table[1][2] # table[2][2]
    /\ num_of_mode = 3
    /\ num_of_n = <<3, 0>>

\* the (order, frequency) pairs of the rows of degree < 0.5 that are retained
RadialRows == {j \in 1..Len(Retained) : 2 * Retained[j][1] < 2}

SumOver(js, f(_)) ==
    LET RECURSIVE Go(_)
        Go(rest) == IF rest = {} THEN 0
                    ELSE LET j == CHOOSE x \in rest : TRUE
                         IN  f(j) + Go(rest \ {j})
    IN  Go(js)

\* d = num/den is the slope of the least-squares line through the radial
\* pairs: the line exists (two pairs differ in order), and with the
\* intercept that makes the residuals sum to zero the residuals are
\* orthogonal to the orders (the normal equations, cleared of fractions)
IsLeastSquaresSlope(d) ==
    LET X(j)  == Retained[j][2]
        Y(j)  == Retained[j][3]
        XY(j) == X(j) * Y(j)
        XX(j) == X(j) * X(j)
        n   == Cardinality(RadialRows)
        sx  == SumOver(RadialRows, X)
        sy  == SumOver(RadialRows, Y)
        sxy == SumOver(RadialRows, XY)
        sxx == SumOver(RadialRows, XX)
    IN  /\ d.den # 0
        /\ \E j, k \in RadialRows : X(j) # X(k)
        /\ n * d.den * sxy - n * d.num * sxx - (d.den * sy - d.num * sx) * sx = 0

\* C7: with zero or one radial row in the retained table, loadFreq returns
\* no result carrying a numeric delta_nu.
C7_DegenerateFitIsAnError ==
    Cardinality(RadialRows) <= 1 => ~(pcFreq = "returned" /\ delta_nu # NaN)

\* C8: the delta_nu loadFreq returns is the slope of the least-squares line
\* through the (order, frequency) pairs of the rows of degree < 0.5, and is
\* a when these follow v = a*n + b.  (Stated of the returns that carry a
\* number, which do not depend on the build of the linear-algebra library.)
C8_DeltaNuIsLeastSquaresSlope ==
    (pcFreq = "returned" /\ delta_nu # NaN) =>
        /\ IsLeastSquaresSlope(delta_nu)
        /\ \A a \in {-100, -50, 0, 50, 100}, b \in {900, 1000, 1050, 1100, 1200} :
              ( /\ Cardinality(RadialRows) >= 2
                /\ \A j, k \in RadialRows : j # k => Retained[j][2] # Retained[k][2]
                /\ \A j \in RadialRows : Retained[j][3] = a * Retained[j][2] + b )
                 => delta_nu.num = a * delta_nu.den

\* the part of C8 that holds: when two radial rows differ in order, the
\* returned delta_nu is the least-squares slope
WellPosedFitGivesLeastSquaresSlope ==
    (pcFreq = "returned" /\ \E j, k \in RadialRows : Retained[j][2] # Retained[k][2])
        => C8_DeltaNuIsLeastSquaresSlope

====
